---- MODULE Spec2Model ----
(***************************************************************************)
(* Planning graph construction, mutex analysis and the level-sum          *)
(* heuristic of my_planning_graph.py, driven by the air cargo problems of  *)
(* my_air_cargo_problems.py.                                               *)
(*                                                                         *)
(* Objects are modelled by value where the code compares them by value    *)
(* (PgNode_s by (symbol, is_pos), PgNode_a by (name, args)) and by the    *)
(* layer that owns them where the code mutates them in place: a fact      *)
(* layer is a function from node key to the fields of the one node object *)
(* the layer holds for that key.  The candidate parents an action node    *)
(* builds for itself (prenodes) are separate objects with their own       *)
(* fields, and are kept as such.                                          *)
(***************************************************************************)
EXTENDS Naturals, Sequences, FiniteSets, TLC

VARIABLES
    problem,      \* the Problem handed to PlanningGraph: state_map, initial_state_TF, actions_list
    state,        \* the "TF.." state string handed to PlanningGraph
    fs,           \* PlanningGraph.fs: the decoded FluentState
    serial,       \* PlanningGraph.serial
    all_actions,  \* PlanningGraph.all_actions: actions_list + no-ops
    s_levels,     \* PlanningGraph.s_levels: one function (node key -> PgNode_s fields) per fact layer
    a_levels,     \* PlanningGraph.a_levels: one function (node key -> PgNode_a fields) per action layer
    level,        \* create_graph's local level
    leveled,      \* create_graph's local leveled
    pc,           \* position of the program
    graphs,       \* the PlanningGraph objects constructed earlier, oldest first
    goal,         \* problem.goal, read by h_levelsum
    level_sums,   \* what h_levelsum returned for each graph of graphs and for the current one
    client_nodes, \* the PgNode objects a caller of the module functions holds, in a list
    call,         \* the last call made from outside the constructor: [op, node1, node2]
    outcome       \* how that call ended: [raised, returned]

vars == <<problem, state, fs, serial, all_actions, s_levels, a_levels, level,
          leveled, pc, graphs, goal, level_sums, client_nodes, call, outcome>>

-----------------------------------------------------------------------------
(* Bounds *)

\* create_graph's loop is cut off when level reaches MaxLevel
MaxLevel == 12
\* number of PlanningGraph objects one run constructs
MaxGraphs == 2
\* longest goal list
MaxGoalLen == 2
\* an initial state lists every fluent of the domain, or at most MaxListed of them
MaxListed == 1
\* longest sequence of result applications followed from the start state
MaxSteps == 4

-----------------------------------------------------------------------------
(* Sequences and sets *)

Range(s) == {s[i] : i \in 1..Len(s)}

RECURSIVE Flatten(_)
Flatten(ss) == IF ss = <<>> THEN <<>> ELSE Head(ss) \o Flatten(Tail(ss))

RECURSIVE SumOver(_, _)
SumOver(f, S) ==
    IF S = {} THEN 0
    ELSE LET x == CHOOSE y \in S : TRUE IN f[x] + SumOver(f, S \ {x})

Min(S) == CHOOSE x \in S : \A y \in S : x <= y

\* s without its i-th element
RemoveAt(s, i) == [k \in 1..(Len(s) - 1) |-> IF k < i THEN s[k] ELSE s[k + 1]]

-----------------------------------------------------------------------------
(* Expressions and actions (aimacode expr and Action as the code uses them) *)

\* expr("At(C1, SFO)"): op "At", args (C1, SFO)
At(x, a) == <<"At", x, a>>
In(c, p) == <<"In", c, p>>
\* ~e: op "~", args (e,)
Invert(e) == <<"~", e>>
Op(e) == e[1]
Arg0(e) == e[2]

\* Action(expr(name(args)), [precond_pos, precond_neg], [effect_add, effect_rem])
Action(name, args, precond_pos, precond_neg, effect_add, effect_rem) ==
    [name |-> name, args |-> args,
     precond_pos |-> precond_pos, precond_neg |-> precond_neg,
     effect_add |-> effect_add, effect_rem |-> effect_rem]

-----------------------------------------------------------------------------
(* AirCargoProblem *)

cargos == <<"C1">>
planes == <<"P1">>
airports == <<"SFO", "JFK">>

load_actions ==
    Flatten([ci \in 1..Len(cargos) |->
      Flatten([pi \in 1..Len(planes) |->
        [ai \in 1..Len(airports) |->
          LET cargo == cargos[ci]  plane == planes[pi]  airport == airports[ai]
          IN Action("Load", <<cargo, plane, airport>>,
                    <<At(cargo, airport), At(plane, airport)>>, <<>>,
                    <<In(cargo, plane)>>, <<At(cargo, airport)>>)]])])

unload_actions ==
    Flatten([ci \in 1..Len(cargos) |->
      Flatten([pi \in 1..Len(planes) |->
        [ai \in 1..Len(airports) |->
          LET cargo == cargos[ci]  plane == planes[pi]  airport == airports[ai]
          IN Action("Unload", <<cargo, plane, airport>>,
                    <<In(cargo, plane), At(plane, airport)>>, <<>>,
                    <<At(cargo, airport)>>, <<In(cargo, plane)>>)]])])

fly_actions ==
    Flatten([fi \in 1..Len(airports) |->
      Flatten([ti \in 1..Len(airports) |->
        IF airports[fi] # airports[ti]
        THEN [pi \in 1..Len(planes) |->
               LET fr == airports[fi]  to == airports[ti]  p == planes[pi]
               IN Action("Fly", <<p, fr, to>>,
                         <<At(p, fr)>>, <<>>,
                         <<At(p, to)>>, <<At(p, fr)>>)]
        ELSE <<>>])])

get_actions == load_actions \o unload_actions \o fly_actions

\* every fluent of the domain, in a fixed order
fluents ==
    Flatten([ci \in 1..Len(cargos) |-> [ai \in 1..Len(airports) |-> At(cargos[ci], airports[ai])]])
    \o Flatten([pi \in 1..Len(planes) |-> [ai \in 1..Len(airports) |-> At(planes[pi], airports[ai])]])
    \o Flatten([ci \in 1..Len(cargos) |-> [pi \in 1..Len(planes) |-> In(cargos[ci], planes[pi])]])

\* the fluents of S as a list, in the order of fluents
ListOf(S) == SelectSeq(fluents, LAMBDA f : f \in S)

\* FluentState(pos, neg)
FluentState(pos, neg) == [pos |-> pos, neg |-> neg]

\* the initial states a problem is constructed with: fluents listed as true
\* (pos) and others listed as false (neg); state_map is what is listed
FluentStates ==
    {FluentState(ListOf(pn[1]), ListOf(pn[2])) :
        pn \in {qn \in (SUBSET Range(fluents)) \X (SUBSET Range(fluents)) :
                  /\ qn[1] \cap qn[2] = {}
                  /\ \/ qn[1] \cup qn[2] = Range(fluents)
                     \/ Cardinality(qn[1] \cup qn[2]) <= MaxListed}}

\* lp_utils.encode_state: "T" where the fluent of the map is positive in fs
encode_state(f, map) ==
    [i \in 1..Len(map) |-> IF map[i] \in Range(f.pos) THEN "T" ELSE "F"]

\* lp_utils.decode_state: the fluents of the map at "T" positions, and the others
decode_state(st, map) ==
    LET idx(c) == {i \in 1..Len(map) : st[i] = c}
    IN FluentState(SelectSeq(map, LAMBDA f : \E i \in idx("T") : map[i] = f),
                   SelectSeq(map, LAMBDA f : \E i \in idx("F") : map[i] = f))

\* AirCargoProblem.__init__
AirCargoProblem(initial) ==
    LET state_map == initial.pos \o initial.neg
    IN [state_map |-> state_map,
        initial_state_TF |-> encode_state(initial, state_map),
        actions_list |-> get_actions]

-----------------------------------------------------------------------------
(* Graph nodes *)

\* PgNode_s(symbol, is_pos): a fresh fact node
PgNode_s(symbol, is_pos) ==
    [symbol |-> symbol, is_pos |-> is_pos,
     literal |-> IF is_pos THEN symbol ELSE Invert(symbol),
     parents |-> {}, children |-> {}, mutex |-> {}]

\* what PgNode_s.__eq__ and __hash__ compare: (symbol, is_pos)
SKey(n) == <<n.symbol, n.is_pos>>
SKeys(nodes) == {SKey(n) : n \in nodes}
\* the literal of the fact node with key k
LiteralOf(k) == IF k[2] THEN k[1] ELSE Invert(k[1])

\* PgNode_a.precond_s_nodes: fresh fact nodes for the preconditions
\* precond_s_nodes that makes a positive node of every precondition
precond_s_nodes_AllPositive(action) ==
    {PgNode_s(p, TRUE) : p \in Range(action.precond_pos) \cup Range(action.precond_neg)}

precond_s_nodes(action) ==
    {PgNode_s(p, TRUE) : p \in Range(action.precond_pos)}
    \cup {PgNode_s(p, FALSE) : p \in Range(action.precond_neg)}

\* PgNode_a.effect_s_nodes: fresh fact nodes for the effects
effect_s_nodes(action) ==
    {PgNode_s(e, TRUE) : e \in Range(action.effect_add)}
    \cup {PgNode_s(e, FALSE) : e \in Range(action.effect_rem)}

\* PgNode_a(action): a fresh action node, not yet connected
PgNode_a(action) ==
    [action |-> action,
     prenodes |-> precond_s_nodes(action),
     effnodes |-> effect_s_nodes(action),
     is_persistent |-> (SKeys(precond_s_nodes(action)) = SKeys(effect_s_nodes(action))),
     parents |-> {}, children |-> {}, mutex |-> {}]

\* what PgNode_a.__eq__ and __hash__ compare: (action.name, action.args)
AKey(n) == <<n.action.name, n.action.args>>

IsActionNode(n) == "action" \in DOMAIN n
KeyOf(n) == IF IsActionNode(n) THEN AKey(n) ELSE SKey(n)

\* PgNode.is_mutex: other in self.mutex (set membership is by key)
is_mutex(self, other) == KeyOf(other) \in self.mutex

\* mutexify on the nodes with keys k1 and k2 of one layer; nodes of different
\* types raise TypeError before either mutex set is touched
\* mutexify that records the relation on the first node only
mutexify_OneWay(nodes, k1, k2) ==
    IF IsActionNode(nodes[k1]) # IsActionNode(nodes[k2])
    THEN nodes
    ELSE [nodes EXCEPT ![k1].mutex = @ \cup {KeyOf(nodes[k2])}]

\* mutexify that skips the test of the two types
mutexify_Unchecked(nodes, k1, k2) ==
    [nodes EXCEPT ![k1].mutex = @ \cup {KeyOf(nodes[k2])},
                  ![k2].mutex = @ \cup {KeyOf(nodes[k1])}]

mutexify(nodes, k1, k2) ==
    IF IsActionNode(nodes[k1]) # IsActionNode(nodes[k2])
    THEN nodes
    ELSE [nodes EXCEPT ![k1].mutex = @ \cup {KeyOf(nodes[k2])},
                       ![k2].mutex = @ \cup {KeyOf(nodes[k1])}]

\* get_expressions: the effects (or preconditions) with the removed (negative) ones negated
get_expressions(action, cond_or_effect) ==
    IF cond_or_effect = "effect"
    THEN action.effect_add \o [i \in 1..Len(action.effect_rem) |-> Invert(action.effect_rem[i])]
    ELSE action.precond_pos \o [i \in 1..Len(action.precond_neg) |-> Invert(action.precond_neg[i])]

-----------------------------------------------------------------------------
(* PlanningGraph *)

\* noop_actions: Noop_pos and Noop_neg for each fluent of the list, in turn
noop_actions_PosOnly(literal_list) ==
    [i \in 1..Len(literal_list) |->
        LET fluent == literal_list[i]
        IN Action("Noop_pos", <<fluent>>, <<fluent>>, <<>>, <<fluent>>, <<>>)]

noop_actions(literal_list) ==
    Flatten([i \in 1..Len(literal_list) |->
        LET fluent == literal_list[i]
        IN <<Action("Noop_pos", <<fluent>>, <<fluent>>, <<>>, <<fluent>>, <<>>),
             Action("Noop_neg", <<fluent>>, <<>>, <<fluent>>, <<>>, <<fluent>>)>>])

\* the layer (key -> node) of a set of nodes with distinct keys
LayerOf(nodes) == [k \in {KeyOf(n) : n \in nodes} |-> CHOOSE n \in nodes : KeyOf(n) = k]

\* the fact layer of code index i, the action layer of code index i
SLevel(i) == s_levels[i + 1]
ALevel(i) == a_levels[i + 1]

Reverse(s) == [i \in 1..Len(s) |-> s[Len(s) + 1 - i]]

\* list(nodeset) for a set of action node keys: the order of all_actions, or its reverse
ActionNodeList(keys, rev) ==
    LET ordered == SelectSeq([i \in 1..Len(all_actions) |->
                                <<all_actions[i].name, all_actions[i].args>>],
                             LAMBDA k : k \in keys)
    IN IF rev THEN Reverse(ordered) ELSE ordered

\* list(nodeset) for a set of fact node keys: the order of fluents, or its reverse
FactNodeList(keys, rev) ==
    LET ordered == SelectSeq(Flatten([i \in 1..Len(fluents) |->
                                        << <<fluents[i], TRUE>>, <<fluents[i], FALSE>> >>]),
                             LAMBDA k : k \in keys)
    IN IF rev THEN Reverse(ordered) ELSE ordered

-----------------------------------------------------------------------------
(* Action-layer mutex tests *)

\* serialize_actions
\* serialize_actions that spares only the pairs of two no-ops
serialize_actions_OneNoop(node_a1, node_a2) ==
    IF ~serial THEN FALSE
    ELSE ~(node_a1.is_persistent /\ node_a2.is_persistent)

\* serialize_actions that needs the two actions to share a name to be mutex
serialize_actions_SameName(node_a1, node_a2) ==
    IF ~serial THEN FALSE
    ELSE IF node_a1.is_persistent \/ node_a2.is_persistent THEN FALSE
    ELSE node_a1.action.name = node_a2.action.name

serialize_actions(node_a1, node_a2) ==
    IF ~serial THEN FALSE
    ELSE IF node_a1.is_persistent \/ node_a2.is_persistent THEN FALSE
    ELSE TRUE

\* one expression is the negation of the other (the test both loops below make)
Negates(e1, e2) ==
    \/ (Op(e1) = "~" /\ Op(e2) # "~" /\ Arg0(e1) = e2)
    \/ (Op(e1) # "~" /\ Op(e2) = "~" /\ e1 = Arg0(e2))

\* effects1/effects2 of the mutex tests: the action's expressions plus the children's literals
EffectsOf(node_a) ==
    Range(get_expressions(node_a.action, "effect")) \cup {LiteralOf(c) : c \in node_a.children}

\* preconds1/preconds2 of interference_mutex: the action's expressions plus the parents' literals
PrecondsOf(node_a) ==
    Range(get_expressions(node_a.action, "cond")) \cup {p.literal : p \in node_a.parents}

\* inconsistent effects read from the children alone
inconsistent_effects_mutex_ChildrenOnly(node_a1, node_a2) ==
    \E c \in node_a1.children : \E c2 \in node_a2.children :
        Negates(LiteralOf(c), LiteralOf(c2))

\* inconsistent_effects_mutex
inconsistent_effects_mutex(node_a1, node_a2) ==
    \E effect \in EffectsOf(node_a1) : \E effect2 \in EffectsOf(node_a2) :
        Negates(effect, effect2)

\* interference tested in one direction: preconditions of the first node
\* against effects of the second
interference_mutex_OneDirection(node_a1, node_a2) ==
    \E precond \in PrecondsOf(node_a1) : \E effect \in EffectsOf(node_a2) :
        Negates(precond, effect)

\* interference_mutex
interference_mutex(node_a1, node_a2) ==
    \/ \E precond \in PrecondsOf(node_a1) : \E effect \in EffectsOf(node_a2) :
          Negates(precond, effect)
    \/ \E precond \in PrecondsOf(node_a2) : \E effect \in EffectsOf(node_a1) :
          Negates(precond, effect)

\* competing_needs_mutex: the parents are the action nodes' own prenodes
competing_needs_mutex(node_a1, node_a2) ==
    \E precond \in node_a1.parents : \E precond2 \in node_a2.parents :
        is_mutex(precond, precond2)

\* the condition of update_a_mutex's if
ActionsMutex(n1, n2) ==
    \/ serialize_actions(n1, n2)
    \/ inconsistent_effects_mutex(n1, n2)
    \/ interference_mutex(n1, n2)
    \/ competing_needs_mutex(n1, n2)

\* update_a_mutex, inner loop: n1 = nodelist[i] against nodelist[lo], ..., nodelist[hi]
\* in this order, written as the first half of the range followed by the second
\* (the comparison makes TLC evaluate the first half before it enters the second)
RECURSIVE update_a_mutex_inner(_, _, _, _, _)
update_a_mutex_inner(nodes, nodelist, i, lo, hi) ==
    IF lo > hi THEN nodes
    ELSE IF lo = hi
    THEN IF ActionsMutex(nodes[nodelist[i]], nodes[nodelist[lo]])
         THEN mutexify(nodes, nodelist[i], nodelist[lo])
         ELSE nodes
    ELSE LET mid == (lo + hi) \div 2
             first == update_a_mutex_inner(nodes, nodelist, i, lo, mid)
         IN IF first = nodes
            THEN update_a_mutex_inner(nodes, nodelist, i, mid + 1, hi)
            ELSE update_a_mutex_inner(first, nodelist, i, mid + 1, hi)

\* update_a_mutex, outer loop: n1 = nodelist[lo], ..., nodelist[hi] in this order,
\* each against nodelist[i + 1:]
RECURSIVE update_a_mutex_outer(_, _, _, _)
update_a_mutex_outer(nodes, nodelist, lo, hi) ==
    IF lo > hi THEN nodes
    ELSE IF lo = hi
    THEN update_a_mutex_inner(nodes, nodelist, lo, lo + 1, Len(nodelist))
    ELSE LET mid == (lo + hi) \div 2
             first == update_a_mutex_outer(nodes, nodelist, lo, mid)
         IN IF first = nodes
            THEN update_a_mutex_outer(nodes, nodelist, mid + 1, hi)
            ELSE update_a_mutex_outer(first, nodelist, mid + 1, hi)

\* update_a_mutex(nodeset) with list(nodeset) = nodelist; the outer loop is over nodelist[:-1]
update_a_mutex(nodes, nodelist) == update_a_mutex_outer(nodes, nodelist, 1, Len(nodelist) - 1)

-----------------------------------------------------------------------------
(* Fact-layer mutex tests *)

\* negation_mutex
negation_mutex(node_s1, node_s2) ==
    LET opposite_boolean == (node_s1.is_pos /\ ~node_s2.is_pos) \/ (~node_s1.is_pos /\ node_s2.is_pos)
    IN node_s1.symbol = node_s2.symbol /\ opposite_boolean

\* inconsistent support found as soon as one pair of parents is mutex
inconsistent_support_mutex_SomePair(node_s1, node_s2, parent_level) ==
    LET indicator == \E parent \in node_s1.parents : \E parent2 \in node_s2.parents :
                        is_mutex(parent_level[parent], parent_level[parent2])
    IN is_mutex(node_s1, node_s2) \/ indicator

\* inconsistent_support_mutex; parent_level is the action layer the parents live in
inconsistent_support_mutex(node_s1, node_s2, parent_level) ==
    LET indicator == \A parent \in node_s1.parents : \A parent2 \in node_s2.parents :
                        is_mutex(parent_level[parent], parent_level[parent2])
    IN is_mutex(node_s1, node_s2) \/ indicator

\* the condition of update_s_mutex's if
FactsMutex(n1, n2, parent_level) ==
    negation_mutex(n1, n2) \/ inconsistent_support_mutex(n1, n2, parent_level)

\* update_s_mutex, inner loop: n1 = nodelist[i] against nodelist[lo], ..., nodelist[hi]
\* in this order, written as the first half of the range followed by the second
RECURSIVE update_s_mutex_inner(_, _, _, _, _, _)
update_s_mutex_inner(nodes, nodelist, i, lo, hi, parent_level) ==
    IF lo > hi THEN nodes
    ELSE IF lo = hi
    THEN IF FactsMutex(nodes[nodelist[i]], nodes[nodelist[lo]], parent_level)
         THEN mutexify(nodes, nodelist[i], nodelist[lo])
         ELSE nodes
    ELSE LET mid == (lo + hi) \div 2
             first == update_s_mutex_inner(nodes, nodelist, i, lo, mid, parent_level)
         IN IF first = nodes
            THEN update_s_mutex_inner(nodes, nodelist, i, mid + 1, hi, parent_level)
            ELSE update_s_mutex_inner(first, nodelist, i, mid + 1, hi, parent_level)

\* update_s_mutex, outer loop: n1 = nodelist[lo], ..., nodelist[hi] in this order,
\* each against nodelist[i + 1:]
RECURSIVE update_s_mutex_outer(_, _, _, _, _)
update_s_mutex_outer(nodes, nodelist, lo, hi, parent_level) ==
    IF lo > hi THEN nodes
    ELSE IF lo = hi
    THEN update_s_mutex_inner(nodes, nodelist, lo, lo + 1, Len(nodelist), parent_level)
    ELSE LET mid == (lo + hi) \div 2
             first == update_s_mutex_outer(nodes, nodelist, lo, mid, parent_level)
         IN IF first = nodes
            THEN update_s_mutex_outer(nodes, nodelist, mid + 1, hi, parent_level)
            ELSE update_s_mutex_outer(first, nodelist, mid + 1, hi, parent_level)

\* update_s_mutex whose inner loop starts one node too far: nodelist[i + 2:]
RECURSIVE update_s_mutex_outer_SkipNext(_, _, _, _, _)
update_s_mutex_outer_SkipNext(nodes, nodelist, lo, hi, parent_level) ==
    IF lo > hi THEN nodes
    ELSE IF lo = hi
    THEN update_s_mutex_inner(nodes, nodelist, lo, lo + 2, Len(nodelist), parent_level)
    ELSE LET mid == (lo + hi) \div 2
             first == update_s_mutex_outer_SkipNext(nodes, nodelist, lo, mid, parent_level)
         IN IF first = nodes
            THEN update_s_mutex_outer_SkipNext(nodes, nodelist, mid + 1, hi, parent_level)
            ELSE update_s_mutex_outer_SkipNext(first, nodelist, mid + 1, hi, parent_level)

update_s_mutex_SkipNext(nodes, nodelist, parent_level) ==
    update_s_mutex_outer_SkipNext(nodes, nodelist, 1, Len(nodelist) - 1, parent_level)

\* update_s_mutex(nodeset) with list(nodeset) = nodelist; the outer loop is over nodelist[:-1]
update_s_mutex(nodes, nodelist, parent_level) ==
    update_s_mutex_outer(nodes, nodelist, 1, Len(nodelist) - 1, parent_level)

-----------------------------------------------------------------------------
(* Layers *)

\* a first fact layer of the positive literals only
InitialLevel_PosOnly(f) ==
    LayerOf({PgNode_s(literal, TRUE) : literal \in Range(f.pos)})

\* the fact layer create_graph starts with
InitialLevel(f) ==
    LayerOf({PgNode_s(literal, TRUE) : literal \in Range(f.pos)}
            \cup {PgNode_s(literal, FALSE) : literal \in Range(f.neg)})

\* admission that also wants the preconditions pairwise non-mutex in the layer
Admitted_NoMutexPrecond(new_action_node, s_level) ==
    /\ SKeys(new_action_node.prenodes) \subseteq DOMAIN s_level
    /\ \A k1, k2 \in SKeys(new_action_node.prenodes) : k2 \notin s_level[k1].mutex

\* the condition under which add_action_level admits an action node
Admitted(new_action_node, s_level) == SKeys(new_action_node.prenodes) \subseteq DOMAIN s_level

\* add_action_level that, in serial mode, admits the persistence actions and
\* only the first applicable action of the catalog
add_action_level_OneActionWhenSerial(actions, s_level) ==
    LET applicable == {i \in 1..Len(actions) : Admitted(PgNode_a(actions[i]), s_level)}
        ground == {i \in applicable : ~PgNode_a(actions[i]).is_persistent}
        admitted == IF serial /\ ground # {}
                    THEN (applicable \ ground) \cup {Min(ground)}
                    ELSE applicable
        KeyAt(i) == <<actions[i].name, actions[i].args>>
    IN [k \in {KeyAt(i) : i \in admitted} |->
          LET new_action_node == PgNode_a(actions[Min({i \in admitted : KeyAt(i) = k})])
          IN [new_action_node EXCEPT !.parents = new_action_node.prenodes]]

\* add_action_level: the new action layer over fact layer s_level
add_action_level(actions, s_level) ==
    LET admitted == {i \in 1..Len(actions) : Admitted(PgNode_a(actions[i]), s_level)}
        KeyAt(i) == <<actions[i].name, actions[i].args>>
    IN [k \in {KeyAt(i) : i \in admitted} |->
          LET new_action_node == PgNode_a(actions[Min({i \in admitted : KeyAt(i) = k})])
          IN [new_action_node EXCEPT !.parents = new_action_node.prenodes]]

\* add_literal_level, first loop: every effect node becomes a child of its action node
ConnectChildren(a_level) ==
    [k \in DOMAIN a_level |->
        [a_level[k] EXCEPT !.children = @ \cup SKeys(a_level[k].effnodes)]]

\* add_literal_level that records as parent only the one action node whose
\* own effect node went into the new layer
add_literal_level_OneParent(a_level) ==
    LET new_literals == UNION {a_level[k].effnodes : k \in DOMAIN a_level}
    IN [key \in SKeys(new_literals) |->
          [(CHOOSE n \in new_literals : SKey(n) = key) EXCEPT
              !.parents = {CHOOSE k \in DOMAIN a_level : key \in SKeys(a_level[k].effnodes)}]]

\* add_literal_level, second loop: the new fact layer, each node with the action
\* nodes that have it among their effnodes as parents
add_literal_level(a_level) ==
    LET new_literals == UNION {a_level[k].effnodes : k \in DOMAIN a_level}
    IN [key \in SKeys(new_literals) |->
          [(CHOOSE n \in new_literals : SKey(n) = key) EXCEPT
              !.parents = {k \in DOMAIN a_level : key \in SKeys(a_level[k].effnodes)}]]

\* layers compared for growth only: nothing of the older layer l2 is missing from l1
SameLevel_NothingLost(l1, l2) == DOMAIN l2 \subseteq DOMAIN l1

\* layers compared node by node, links and mutexes included
SameLevel_WithLinks(l1, l2) == l1 = l2

\* s_levels[level] == s_levels[level - 1]: sets of nodes, compared by key
SameLevel(l1, l2) == DOMAIN l1 = DOMAIN l2

-----------------------------------------------------------------------------
(* h_levelsum *)

\* the loop over enumerate(s_levels), from list position i (code index i - 1) on
\* a loop over s_levels that counts the layers from 1
goal_levels_from_OneBased(levels, i, unfound_goals, goal_levels) ==
    [g \in {u \in unfound_goals : \E j \in i..Len(levels) : SKey(u) \in DOMAIN levels[j]} |->
        CHOOSE j \in i..Len(levels) :
            /\ SKey(g) \in DOMAIN levels[j]
            /\ \A h \in i..(j - 1) : SKey(g) \notin DOMAIN levels[h]]

RECURSIVE goal_levels_from(_, _, _, _)
goal_levels_from(levels, i, unfound_goals, goal_levels) ==
    IF i > Len(levels) THEN goal_levels
    ELSE LET found_goals == {g \in unfound_goals : SKey(g) \in DOMAIN levels[i]}
             recorded == [g \in DOMAIN goal_levels \cup found_goals |->
                             IF g \in found_goals THEN i - 1 ELSE goal_levels[g]]
         IN IF unfound_goals \ found_goals = {}
            THEN recorded
            ELSE goal_levels_from(levels, i + 1, unfound_goals \ found_goals, recorded)

\* a level-max: the largest first-appearance level instead of the sum
h_levelsum_Max(levels, goals) ==
    LET unfound_goals == {PgNode_s(goals[i], TRUE) : i \in 1..Len(goals)}
        goal_levels == goal_levels_from(levels, 1, unfound_goals, <<>>)
        found == {goal_levels[g] : g \in DOMAIN goal_levels}
    IN [raised |-> FALSE,
        value |-> IF found = {} THEN 0 ELSE CHOOSE m \in found : \A n \in found : n <= m]

\* a level sum that keeps, for each goal, the last layer it is seen in
h_levelsum_LastSeen(levels, goals) ==
    LET unfound_goals == {PgNode_s(goals[i], TRUE) : i \in 1..Len(goals)}
        seen == {g \in unfound_goals : \E i \in 1..Len(levels) : SKey(g) \in DOMAIN levels[i]}
        goal_levels == [g \in seen |->
                           CHOOSE i \in 0..(Len(levels) - 1) :
                               /\ SKey(g) \in DOMAIN levels[i + 1]
                               /\ \A j \in (i + 1)..(Len(levels) - 1) :
                                     SKey(g) \notin DOMAIN levels[j + 1]]
    IN [raised |-> FALSE, value |-> SumOver(goal_levels, DOMAIN goal_levels)]

\* h_levelsum on a graph with fact layers levels, for the goal list goals
h_levelsum(levels, goals) ==
    LET unfound_goals == {PgNode_s(goals[i], TRUE) : i \in 1..Len(goals)}
        goal_levels == goal_levels_from(levels, 1, unfound_goals, <<>>)
    IN [raised |-> FALSE, value |-> SumOver(goal_levels, DOMAIN goal_levels)]

-----------------------------------------------------------------------------
(* The program: construct a graph, query it or construct the next one *)

\* no call from outside the constructor has been made
NoCall == [op |-> "none", node1 |-> <<>>, node2 |-> <<>>]
\* nothing raised, nothing returned
NoOutcome == [raised |-> "none", returned |-> "none"]

\* the goal lists h_levelsum is asked about
Goals == UNION {[1..n -> Range(fluents)] : n \in 0..MaxGoalLen}

\* the PlanningGraph object under construction or last constructed
CurrentGraph ==
    [problem |-> problem, serial |-> serial, s_levels |-> s_levels, a_levels |-> a_levels]

\* every PlanningGraph object constructed to completion so far
BuiltGraphs == IF pc \in {"built", "done"} THEN Append(graphs, CurrentGraph) ELSE graphs

\* an AirCargoProblem is constructed and PlanningGraph.__init__ has run up to
\* its call of create_graph (h_pg_levelsum: PlanningGraph(self, node.state))
Init ==
    /\ \E initial \in FluentStates : problem = AirCargoProblem(initial)
    /\ state = problem.initial_state_TF
    /\ fs = decode_state(state, problem.state_map)
    /\ serial = TRUE
    /\ all_actions = problem.actions_list \o noop_actions(problem.state_map)
    /\ s_levels = <<>>
    /\ a_levels = <<>>
    /\ level = 0
    /\ leveled = FALSE
    /\ pc = "create_graph"
    /\ graphs = <<>>
    /\ goal = <<>>
    /\ level_sums = <<>>
    /\ client_nodes = <<>>
    /\ call = NoCall
    /\ outcome = NoOutcome

\* a create_graph that never refuses to build again
AlreadyCreated_Never(sl, al) == FALSE

\* create_graph's guard: the graph has been built already
AlreadyCreated(sl, al) == (Len(sl) # 0) \/ (Len(al) # 0)

\* s_levels[level].add(node) for every node of new: a node already in the set stays
AddNodes(s_level, new) ==
    [k \in DOMAIN s_level \cup DOMAIN new |->
        IF k \in DOMAIN s_level THEN s_level[k] ELSE new[k]]

\* create_graph up to its loop: the guard, then fact layer 0
create_graph ==
    IF AlreadyCreated(s_levels, a_levels)
    THEN /\ outcome' = [raised |-> "Exception", returned |-> "none"]
         /\ pc' = "raised"
         /\ UNCHANGED <<s_levels, a_levels, level, leveled>>
    ELSE /\ leveled' = FALSE
         /\ level' = 0
         /\ s_levels' = [Append(s_levels, <<>>) EXCEPT ![1] = AddNodes(@, InitialLevel(fs))]
         /\ pc' = "add_action_level"
         /\ UNCHANGED <<a_levels, outcome>>

\* the constructor's call of create_graph
CreateGraph ==
    /\ pc = "create_graph"
    /\ create_graph
    /\ UNCHANGED <<problem, state, fs, serial, all_actions, graphs, goal, level_sums,
                   client_nodes, call>>

\* a call of create_graph on the constructed graph
CreateGraphAgain ==
    /\ pc = "built"
    /\ call' = [op |-> "create_graph", node1 |-> <<>>, node2 |-> <<>>]
    /\ create_graph
    /\ UNCHANGED <<problem, state, fs, serial, all_actions, graphs, goal, level_sums,
                   client_nodes>>

\* self.add_action_level(level)
AddActionLevel ==
    /\ pc = "add_action_level"
    /\ level < MaxLevel
    /\ a_levels' = Append(a_levels, add_action_level(all_actions, SLevel(level)))
    /\ pc' = "update_a_mutex"
    /\ UNCHANGED <<problem, state, fs, serial, all_actions, s_levels, level, leveled,
                   graphs, goal, level_sums, client_nodes, call, outcome>>

\* self.update_a_mutex(self.a_levels[level])
UpdateAMutex ==
    /\ pc = "update_a_mutex"
    /\ \E rev \in BOOLEAN :
          a_levels' = [a_levels EXCEPT ![level + 1] =
                          update_a_mutex(@, ActionNodeList(DOMAIN @, rev))]
    /\ pc' = "add_literal_level"
    /\ UNCHANGED <<problem, state, fs, serial, all_actions, s_levels, level, leveled,
                   graphs, goal, level_sums, client_nodes, call, outcome>>

\* level += 1; self.add_literal_level(level)
AddLiteralLevel ==
    /\ pc = "add_literal_level"
    /\ level' = level + 1
    /\ a_levels' = [a_levels EXCEPT ![level + 1] = ConnectChildren(@)]
    /\ s_levels' = Append(s_levels, add_literal_level(ALevel(level)))
    /\ pc' = "update_s_mutex"
    /\ UNCHANGED <<problem, state, fs, serial, all_actions, leveled, graphs, goal, level_sums, client_nodes, call, outcome>>

\* self.update_s_mutex(self.s_levels[level]) and the test that ends the loop
UpdateSMutex ==
    /\ pc = "update_s_mutex"
    /\ \E rev \in BOOLEAN :
          s_levels' = [s_levels EXCEPT ![level + 1] =
                          update_s_mutex(@, FactNodeList(DOMAIN @, rev), ALevel(level - 1))]
    /\ leveled' = SameLevel(s_levels'[level + 1], s_levels'[level])
    /\ pc' = IF leveled' THEN "built" ELSE "add_action_level"
    /\ UNCHANGED <<problem, state, fs, serial, all_actions, a_levels, level, graphs,
                   goal, level_sums, client_nodes, call, outcome>>

\* pg.h_levelsum() on every graph constructed, for one goal list of the problem
HLevelsum ==
    /\ pc = "built"
    /\ \E g \in Goals : goal' = g
    /\ level_sums' = [i \in 1..Len(BuiltGraphs) |-> h_levelsum(BuiltGraphs[i].s_levels, goal')]
    /\ pc' = "done"
    /\ UNCHANGED <<problem, state, fs, serial, all_actions, s_levels, a_levels, level,
                   leveled, graphs, client_nodes, call, outcome>>

\* PlanningGraph.__init__ up to its call of create_graph, for problem p in mode ser;
\* the graph constructed before is kept
NewGraph(p, ser) ==
    /\ pc = "built"
    /\ Len(graphs) + 1 < MaxGraphs
    /\ graphs' = Append(graphs, CurrentGraph)
    /\ problem' = p
    /\ fs' = decode_state(state, p.state_map)
    /\ serial' = ser
    /\ all_actions' = p.actions_list \o noop_actions(p.state_map)
    /\ s_levels' = <<>>
    /\ a_levels' = <<>>
    /\ pc' = "create_graph"
    /\ UNCHANGED <<state, level, leveled, goal, level_sums, client_nodes, call, outcome>>

\* the next graph is built for the same state with one ground action fewer
NewGraphFewerActions ==
    \E i \in 1..Len(problem.actions_list) :
        NewGraph([problem EXCEPT !.actions_list = RemoveAt(@, i)], serial)

\* the next graph is built for the same problem and state in the other mode
NewGraphOtherMode == NewGraph(problem, ~serial)

Next ==
    \/ CreateGraph
    \/ CreateGraphAgain
    \/ AddActionLevel
    \/ UpdateAMutex
    \/ AddLiteralLevel
    \/ UpdateSMutex
    \/ HLevelsum
    \/ NewGraphFewerActions
    \/ NewGraphOtherMode

Spec == Init /\ [][Next]_vars

\* a step of create_graph, told by the program position alone: each of
\* CreateGraph, AddActionLevel, UpdateAMutex, AddLiteralLevel and UpdateSMutex
\* is enabled exactly when its guard holds and always moves pc
CreateGraphStep ==
    /\ pc \in {"create_graph", "add_action_level", "update_a_mutex",
               "add_literal_level", "update_s_mutex"}
    /\ (pc = "add_action_level") => (level < MaxLevel)
    /\ \E next \in {"add_action_level", "update_a_mutex", "add_literal_level",
                     "update_s_mutex", "built"} : pc' = next

\* create_graph runs to completion once called: nothing suspends it
FairSpec == Spec /\ WF_pc(CreateGraphStep)

-----------------------------------------------------------------------------
(* The search on the problem: actions and result *)

\* Action.check_precond on a knowledge base of the positive fluents pos
check_precond(action, pos) ==
    /\ \A i \in 1..Len(action.precond_pos) : action.precond_pos[i] \in pos
    /\ \A i \in 1..Len(action.precond_neg) : action.precond_neg[i] \notin pos

\* Action.act on a knowledge base of the positive fluents pos: the clauses left
act(action, pos) == (pos \ Range(action.effect_rem)) \cup Range(action.effect_add)

\* AirCargoProblem.actions(state)
actions(p, st) ==
    LET current_state == decode_state(st, p.state_map)
    IN {p.actions_list[i] : i \in {j \in 1..Len(p.actions_list) :
                                     check_precond(p.actions_list[j], Range(current_state.pos))}}

\* AirCargoProblem.result(state, action), for an action of actions(state)
result(p, st, action) ==
    LET current_state == decode_state(st, p.state_map)
        new_pos == act(action, Range(current_state.pos))
        new_state == FluentState(ListOf(new_pos),
                                 SelectSeq(current_state.pos \o current_state.neg,
                                           LAMBDA fluent : fluent \notin new_pos))
    IN encode_state(new_state, p.state_map)

\* the states n successive applications of result lead to from st
RECURSIVE StatesAfter(_, _, _)
StatesAfter(p, st, n) ==
    IF n = 0 THEN {st}
    ELSE UNION {{result(p, s, a) : a \in actions(p, s)} : s \in StatesAfter(p, st, n - 1)}

-----------------------------------------------------------------------------
(* The module functions called on nodes a caller holds *)

\* mutexify's test: type(node1) != type(node2)
mutexify_raises(node1, node2) == IsActionNode(node1) # IsActionNode(node2)

\* is_mutex_relation(node1, node2): what it raises or returns
is_mutex_relation(node1, node2) ==
    IF KeyOf(node1) \in node2.mutex
    THEN [raised |-> "none", returned |-> "True"]
    ELSE IF KeyOf(node2) \in node1.mutex
         THEN [raised |-> "ValueError", returned |-> "none"]
         ELSE [raised |-> "none", returned |-> "False"]

\* the node objects a caller can construct: PgNode_s of every fluent and
\* polarity, PgNode_a of every ground action and no-op
NodeObjects(is_action) ==
    IF is_action
    THEN {PgNode_a(a) : a \in Range(get_actions \o noop_actions(fluents))}
    ELSE {PgNode_s(fluents[i], b) : i \in 1..Len(fluents), b \in BOOLEAN}

\* a caller holds one or two nodes; no graph is under construction
NodeInit ==
    /\ problem = AirCargoProblem(FluentState(<<>>, fluents))
    /\ state = problem.initial_state_TF
    /\ fs = decode_state(state, problem.state_map)
    /\ serial = TRUE
    /\ all_actions = problem.actions_list \o noop_actions(problem.state_map)
    /\ s_levels = <<>>
    /\ a_levels = <<>>
    /\ level = 0
    /\ leveled = FALSE
    /\ pc = "nodes"
    /\ graphs = <<>>
    /\ goal = <<>>
    /\ level_sums = <<>>
    /\ \E a1, a2, b1, b2 \in BOOLEAN :
          \E n1 \in NodeObjects(a1), n2 \in NodeObjects(a2) :
              \* two of a kind, each with or without the other in its mutex set,
              \* or one of each kind, unrelated
              /\ (a1 # a2) => (~b1 /\ ~b2)
              /\ client_nodes = <<[n1 EXCEPT !.mutex = IF b1 THEN {KeyOf(n2)} ELSE {}],
                                  [n2 EXCEPT !.mutex = IF b2 THEN {KeyOf(n1)} ELSE {}]>>
    /\ call = NoCall
    /\ outcome = NoOutcome

\* mutexify(node1, node2)
Mutexify ==
    /\ pc = "nodes"
    /\ \E k1, k2 \in DOMAIN client_nodes :
          /\ call' = [op |-> "mutexify", node1 |-> k1, node2 |-> k2]
          /\ outcome' = [raised |-> IF mutexify_raises(client_nodes[k1], client_nodes[k2])
                                    THEN "TypeError" ELSE "none",
                         returned |-> "none"]
          /\ client_nodes' = mutexify(client_nodes, k1, k2)
    /\ pc' = "called"
    /\ UNCHANGED <<problem, state, fs, serial, all_actions, s_levels, a_levels, level,
                   leveled, graphs, goal, level_sums>>

\* is_mutex_relation(node1, node2)
IsMutexRelation ==
    /\ pc = "nodes"
    /\ \E k1, k2 \in DOMAIN client_nodes :
          /\ call' = [op |-> "is_mutex_relation", node1 |-> k1, node2 |-> k2]
          /\ outcome' = is_mutex_relation(client_nodes[k1], client_nodes[k2])
    /\ pc' = "called"
    /\ UNCHANGED <<problem, state, fs, serial, all_actions, s_levels, a_levels, level,
                   leveled, graphs, goal, level_sums, client_nodes>>

\* node1.is_mutex(node2)
IsMutex ==
    /\ pc = "nodes"
    /\ \E k1, k2 \in DOMAIN client_nodes :
          /\ call' = [op |-> "is_mutex", node1 |-> k1, node2 |-> k2]
          /\ outcome' = [raised |-> "none",
                         returned |-> IF is_mutex(client_nodes[k1], client_nodes[k2])
                                      THEN "True" ELSE "False"]
    /\ pc' = "called"
    /\ UNCHANGED <<problem, state, fs, serial, all_actions, s_levels, a_levels, level,
                   leveled, graphs, goal, level_sums, client_nodes>>

\* pg.inconsistent_support_mutex(node1, node2) on two fact nodes
InconsistentSupportMutex ==
    /\ pc = "nodes"
    /\ \E k1, k2 \in DOMAIN client_nodes :
          /\ ~IsActionNode(client_nodes[k1]) /\ ~IsActionNode(client_nodes[k2])
          /\ call' = [op |-> "inconsistent_support_mutex", node1 |-> k1, node2 |-> k2]
          /\ outcome' = [raised |-> "none",
                         returned |-> IF inconsistent_support_mutex(client_nodes[k1],
                                                                    client_nodes[k2], <<>>)
                                      THEN "True" ELSE "False"]
    /\ pc' = "called"
    /\ UNCHANGED <<problem, state, fs, serial, all_actions, s_levels, a_levels, level,
                   leveled, graphs, goal, level_sums, client_nodes>>

\* pg.update_s_mutex({node1, node2}) on two fact nodes that no mutex analysis
\* has touched, iterated in either order
UpdateSMutexNodes ==
    /\ pc = "nodes"
    /\ \A k \in DOMAIN client_nodes :
          ~IsActionNode(client_nodes[k]) /\ client_nodes[k].mutex = {}
    /\ KeyOf(client_nodes[1]) # KeyOf(client_nodes[2])
    /\ \E k1, k2 \in DOMAIN client_nodes :
          /\ k1 # k2
          /\ call' = [op |-> "update_s_mutex", node1 |-> k1, node2 |-> k2]
          /\ client_nodes' = update_s_mutex(client_nodes, <<k1, k2>>, <<>>)
    /\ outcome' = NoOutcome
    /\ pc' = "called"
    /\ UNCHANGED <<problem, state, fs, serial, all_actions, s_levels, a_levels, level,
                   leveled, graphs, goal, level_sums>>

NodeNext ==
    \/ Mutexify
    \/ IsMutexRelation
    \/ IsMutex
    \/ InconsistentSupportMutex
    \/ UpdateSMutexNodes

NodeSpec == NodeInit /\ [][NodeNext]_vars

-----------------------------------------------------------------------------
(* Properties *)

\* create_graph has returned for the current graph
Built == pc \in {"built", "done"}

\* every PlanningGraph object there is, finished or not
AllGraphs == Range(graphs) \cup {CurrentGraph}

\* the (fluent, polarity) pairs of a fact layer
Literals(s_level) == DOMAIN s_level

\* fluent f is a positive node of some layer of levels
Found(levels, f) == \E i \in 1..Len(levels) : <<f, TRUE>> \in Literals(levels[i])

\* the smallest code index of a layer of levels that holds f as a positive node
FirstLevel(levels, f) == Min({i \in 0..(Len(levels) - 1) : <<f, TRUE>> \in Literals(levels[i + 1])})

\* the fluents that state_map or an effect of the catalog names
KnownFluents(p) ==
    Range(p.state_map)
    \cup UNION {Range(p.actions_list[i].effect_add) \cup Range(p.actions_list[i].effect_rem) :
                  i \in 1..Len(p.actions_list)}

\* the last two fact layers are equal and no two consecutive layers before them are
FixedPointShape ==
    LET k == Len(s_levels)
    IN /\ k >= 2
       /\ Literals(s_levels[k]) = Literals(s_levels[k - 1])
       /\ \A i \in 1..(k - 2) : Literals(s_levels[i]) # Literals(s_levels[i + 1])

\* C1: for every start state create_graph terminates, and when it has, the last
\* two fact layers are equal as sets of (fluent, polarity) pairs while no
\* earlier pair of consecutive fact layers is equal.
C1_FixedPoint ==
    /\ (pc = "create_graph") ~> (pc = "built")
    /\ [](Built => FixedPointShape)

\* C1 witness: a construction that went round its loop more than once has finished
C1_Witness == pc = "built" /\ Len(s_levels) >= 3 /\ FixedPointShape

\* C2 as stated: the finished graph has at most 2 * |state_map| fact layers.
C2_LayersWithinStateMapLiterals ==
    Built => Len(s_levels) <= 2 * Len(problem.state_map)

\* C2 amended: the finished graph has at most two fact layers more than its
\* last layer has literals that layer 0 lacks, hence at most two more than there
\* are polarized literals, over the fluents of state_map and of the catalog's
\* effects, that are not in layer 0.
C2_LayersWithinNewLiterals ==
    Built =>
        LET k == Len(s_levels)
            new == Cardinality(Literals(s_levels[k]) \ Literals(s_levels[1]))
        IN /\ k <= new + 2
           /\ new <= 2 * Cardinality(KnownFluents(problem)) - Cardinality(Literals(s_levels[1]))

\* C2 witness: a finished graph with more fact layers than 2 * |state_map|
C2_Witness == pc = "built" /\ Len(s_levels) > 2 * Len(problem.state_map)

\* C3: during construction and after it, fact layer 0 is exactly the positive
\* literals of the start state's "T" fluents and the negative literals of its
\* "F" fluents, and each of its nodes has no parents and no mutexes.
C3_LevelZeroIdentity ==
    \A g \in AllGraphs :
        Len(g.s_levels) >= 1 =>
            /\ Literals(g.s_levels[1]) =
                  {<<g.problem.state_map[i], state[i] = "T">> : i \in 1..Len(g.problem.state_map)}
            /\ \A k \in DOMAIN g.s_levels[1] :
                  g.s_levels[1][k].parents = {} /\ g.s_levels[1][k].mutex = {}

\* C3 witness: layer 0 holds positive and negative literals and layer 1 has been analysed
C3_Witness ==
    /\ Len(s_levels) >= 2
    /\ \E k1, k2 \in DOMAIN s_levels[1] : k1[2] /\ ~k2[2]
    /\ \E k \in DOMAIN s_levels[2] : s_levels[2][k].mutex # {}

\* the mutex sets of a layer are symmetric
Symmetric(nodes) ==
    \A a, b \in DOMAIN nodes : (b \in nodes[a].mutex) <=> (a \in nodes[b].mutex)

\* C4: in every state reached, the mutex relation of every layer is symmetric.
C4_MutexSymmetry ==
    \A g \in AllGraphs :
        /\ \A i \in 1..Len(g.a_levels) : Symmetric(g.a_levels[i])
        /\ \A i \in 1..Len(g.s_levels) : Symmetric(g.s_levels[i])

\* C4 witness: an action layer and a fact layer both hold mutex pairs
C4_Witness ==
    /\ \E i \in 1..Len(a_levels) : \E k \in DOMAIN a_levels[i] : a_levels[i][k].mutex # {}
    /\ \E i \in 1..Len(s_levels) : \E k \in DOMAIN s_levels[i] : s_levels[i][k].mutex # {}

\* the action layers of the current graph that update_a_mutex has processed
ProcessedALevels ==
    {i \in 1..Len(a_levels) : ~(pc = "update_a_mutex" /\ i = Len(a_levels))}

\* C5: in a serial graph, once update_a_mutex has processed an action layer,
\* every two distinct non-persistence action nodes of the layer are mutex.
C5_SerialExclusivity ==
    serial =>
        \A i \in ProcessedALevels :
            \A a, b \in DOMAIN a_levels[i] :
                (a # b /\ ~a_levels[i][a].is_persistent /\ ~a_levels[i][b].is_persistent)
                    => (b \in a_levels[i][a].mutex /\ a \in a_levels[i][b].mutex)

\* C5 witness: a processed layer of a serial graph holds two ground actions
\* that none of the other three tests makes mutex
C5_Witness ==
    /\ serial
    /\ \E i \in ProcessedALevels : \E a, b \in DOMAIN a_levels[i] :
          /\ a # b
          /\ ~a_levels[i][a].is_persistent /\ ~a_levels[i][b].is_persistent
          /\ ~inconsistent_effects_mutex(a_levels[i][a], a_levels[i][b])
          /\ ~interference_mutex(a_levels[i][a], a_levels[i][b])
          /\ ~competing_needs_mutex(a_levels[i][a], a_levels[i][b])
          /\ b \in a_levels[i][a].mutex

\* C6: in the finished graph, a fluent that is in a fact layer with both
\* polarities has its two nodes mutex with each other.
C6_NegationMutex ==
    Built =>
        \A i \in 1..Len(s_levels) : \A k \in DOMAIN s_levels[i] :
            <<k[1], ~k[2]>> \in DOMAIN s_levels[i] =>
                <<k[1], ~k[2]>> \in s_levels[i][k].mutex

\* C6 witness: a finished graph has a layer with both polarities of a fluent
C6_Witness ==
    /\ pc = "built"
    /\ \E i \in 1..Len(s_levels) : \E k \in DOMAIN s_levels[i] :
          <<k[1], ~k[2]>> \in DOMAIN s_levels[i]

\* C7: when every goal literal is a positive node of some fact layer,
\* h_levelsum returns the sum over the distinct goal literals of the index of
\* the first layer that holds the literal.
C7_LevelSum ==
    pc = "done" =>
        \A i \in 1..Len(level_sums) :
            (\A f \in Range(goal) : Found(BuiltGraphs[i].s_levels, f)) =>
                /\ ~level_sums[i].raised
                /\ level_sums[i].value =
                      SumOver([f \in Range(goal) |-> FirstLevel(BuiltGraphs[i].s_levels, f)],
                              Range(goal))

\* C7 witness: two distinct goal literals first appear in different layers
\* after layer 0, so that neither the maximum nor one term equals the sum
C7_Witness ==
    /\ pc = "done"
    /\ Len(goal) = 2 /\ goal[1] # goal[2]
    /\ Found(s_levels, goal[1]) /\ Found(s_levels, goal[2])
    /\ FirstLevel(s_levels, goal[1]) >= 1
    /\ FirstLevel(s_levels, goal[2]) > FirstLevel(s_levels, goal[1])

\* C8: when some goal literal is a node of no fact layer, h_levelsum fails
\* instead of returning a number.
C8_UnreachableGoalFails ==
    pc = "done" =>
        \A i \in 1..Len(level_sums) :
            (\E f \in Range(goal) : ~Found(BuiltGraphs[i].s_levels, f)) => level_sums[i].raised

\* the one-step scenario: C1 and P1 at SFO and nothing else true, every fluent
\* listed, the full Load/Unload/Fly catalog, goal [At(C1, JFK)]
OneStepScenario ==
    /\ pc = "done"
    /\ graphs = <<>>
    /\ Range(problem.state_map) = Range(fluents)
    /\ Range(fs.pos) = {At("C1", "SFO"), At("P1", "SFO")}
    /\ problem.actions_list = get_actions
    /\ goal = <<At("C1", "JFK")>>

\* C9 as stated: in the one-step scenario h_levelsum returns 3.
C9_OneStepGoalThree == OneStepScenario => level_sums[1].value = 3

\* C9 amended: in the one-step scenario h_levelsum returns 2.
C9_OneStepGoalTwo == OneStepScenario => (~level_sums[1].raised /\ level_sums[1].value = 2)

\* C9 witness: the scenario has been queried
C9_Witness == OneStepScenario /\ Len(level_sums) = 1

\* graph j of BuiltGraphs was built from the catalog of graph i less one ground action
OneActionFewer(i, j) ==
    LET A == BuiltGraphs[i].problem.actions_list
        B == BuiltGraphs[j].problem.actions_list
    IN \E r \in 1..Len(A) : B = RemoveAt(A, r)

\* the level h_levelsum finds for the single goal literal f
DiscoveredLevel(levels, f) == h_levelsum(levels, <<f>>).value

\* C10: when a graph is built from a catalog and another from that catalog less
\* one ground action, for the same start state, every goal literal found in
\* both graphs is discovered in the second at a level no lower than in the first.
C10_FewerActionsNoSooner ==
    pc = "done" =>
        \A i, j \in 1..Len(BuiltGraphs) :
            OneActionFewer(i, j) =>
                \A f \in Range(goal) :
                    (Found(BuiltGraphs[i].s_levels, f) /\ Found(BuiltGraphs[j].s_levels, f)) =>
                        DiscoveredLevel(BuiltGraphs[j].s_levels, f)
                            >= DiscoveredLevel(BuiltGraphs[i].s_levels, f)

\* C10 witness: a goal literal is discovered strictly later with the smaller catalog
C10_Witness ==
    /\ pc = "done"
    /\ Len(BuiltGraphs) = 2 /\ OneActionFewer(1, 2)
    /\ \E f \in Range(goal) :
          /\ Found(BuiltGraphs[1].s_levels, f) /\ Found(BuiltGraphs[2].s_levels, f)
          /\ DiscoveredLevel(BuiltGraphs[2].s_levels, f) > DiscoveredLevel(BuiltGraphs[1].s_levels, f)

\* C11: a call of create_graph on a graph whose s_levels or a_levels is not
\* empty raises an error and leaves s_levels and a_levels, and with them every
\* node's parents, children and mutex sets, as they were.
C11_RebuildFails ==
    [][(call'.op = "create_graph" /\ call.op # "create_graph") =>
          /\ AlreadyCreated(s_levels, a_levels)
          /\ outcome'.raised = "Exception"
          /\ UNCHANGED <<s_levels, a_levels>>]_vars

\* C11 witness: create_graph was called on a finished graph of several layers
C11_Witness ==
    /\ call.op = "create_graph"
    /\ pc = "raised"
    /\ outcome.raised = "Exception"
    /\ Len(s_levels) >= 3 /\ Len(a_levels) >= 2

\* C12: mutexify on a fact node and an action node raises TypeError and leaves
\* both nodes as they were; on two nodes of one kind it adds each to the
\* other's mutex set and changes nothing else.
C12_MutexifyTyped ==
    [][(call'.op = "mutexify") =>
          LET k1 == call'.node1
              k2 == call'.node2
              node1 == client_nodes[k1]
              node2 == client_nodes[k2]
          IN IF IsActionNode(node1) # IsActionNode(node2)
             THEN outcome'.raised = "TypeError" /\ client_nodes' = client_nodes
             ELSE /\ outcome'.raised = "none"
                  /\ client_nodes' =
                        [client_nodes EXCEPT ![k1].mutex = @ \cup {KeyOf(node2)},
                                             ![k2].mutex = @ \cup {KeyOf(node1)}]]_vars

\* C12 witness: mutexify was called on a fact node and an action node
C12_Witness ==
    /\ call.op = "mutexify"
    /\ outcome.raised = "TypeError"
    /\ ~IsActionNode(client_nodes[call.node1]) /\ IsActionNode(client_nodes[call.node2])
    /\ client_nodes[call.node1].mutex = {} /\ client_nodes[call.node2].mutex = {}

\* exactly one of the two nodes has the other in its mutex set
Asymmetric(nodes, k1, k2) ==
    (KeyOf(nodes[k2]) \in nodes[k1].mutex) # (KeyOf(nodes[k1]) \in nodes[k2].mutex)

\* C13: a mutex query, is_mutex_relation or is_mutex, on two nodes of which
\* exactly one has the other in its mutex set raises an error, in either order
\* of the arguments.
C13_AsymmetricQueryFails ==
    (call.op \in {"is_mutex_relation", "is_mutex"}
        /\ Asymmetric(client_nodes, call.node1, call.node2))
    => outcome.raised # "none"

\* C14: in a serial graph, a fluent that is true in a state reached from the
\* start state by n applications of result, with actions of actions, is a
\* positive node of fact layer min(n, last layer), and h_levelsum for that
\* fluent as the only goal is at most n.
C14_SingleGoalAdmissible ==
    pc = "built" =>
        \A g \in {b \in Range(BuiltGraphs) : b.serial} :
            \A n \in 0..MaxSteps :
                \A st \in StatesAfter(g.problem, state, n) :
                    \A f \in Range(decode_state(st, g.problem.state_map).pos) :
                        /\ <<f, TRUE>> \in Literals(g.s_levels[Min({n + 1, Len(g.s_levels)})])
                        /\ h_levelsum(g.s_levels, <<f>>).value <= n

\* C14 witness: a fluent false in the start state is true after three steps
\* and after no fewer, in a serial graph with a level for it
C14_Witness ==
    /\ pc = "built" /\ serial
    /\ \E f \in Range(problem.state_map) :
          /\ f \notin Range(fs.pos)
          /\ \E st \in StatesAfter(problem, state, 3) :
                f \in Range(decode_state(st, problem.state_map).pos)
          /\ \A n \in 0..2 : \A st \in StatesAfter(problem, state, n) :
                f \notin Range(decode_state(st, problem.state_map).pos)
          /\ h_levelsum(s_levels, <<f>>).value \in 1..3

\* the signed precondition literals of an action, as (fluent, polarity) pairs
SignedPreconds(action) ==
    {<<f, TRUE>> : f \in Range(action.precond_pos)}
    \cup {<<f, FALSE>> : f \in Range(action.precond_neg)}

\* the signed effect literals of an action, as (fluent, polarity) pairs
SignedEffects(action) ==
    {<<f, TRUE>> : f \in Range(action.effect_add)}
    \cup {<<f, FALSE>> : f \in Range(action.effect_rem)}

\* all_actions of graph g: its ground actions and its no-ops
AllActionsOf(g) == Range(g.problem.actions_list \o noop_actions(g.problem.state_map))

\* C15: in every graph and layer i, an action of all_actions has a node in
\* a_levels[i] if and only if each of its signed precondition literals is a
\* node of s_levels[i].
C15_AdmittedIffPreconditions ==
    \A g \in AllGraphs : \A i \in 1..Len(g.a_levels) : \A action \in AllActionsOf(g) :
        (<<action.name, action.args>> \in DOMAIN g.a_levels[i])
            <=> (SignedPreconds(action) \subseteq Literals(g.s_levels[i]))

\* C15 witness: a layer after layer 0 admits a no-op of a negative literal and
\* a ground action, and leaves out another ground action
C15_Witness ==
    /\ Len(a_levels) >= 2
    /\ \E a1, a2, a3 \in Range(all_actions) :
          /\ a1.name = "Noop_neg" /\ a2.name = "Unload" /\ a3.name = "Load"
          /\ <<a1.name, a1.args>> \in DOMAIN a_levels[2]
          /\ <<a2.name, a2.args>> \in DOMAIN a_levels[2]
          /\ <<a3.name, a3.args>> \notin DOMAIN a_levels[2]

\* C16: in every graph and layer i, the literals of s_levels[i+1] are the
\* signed effects of the action nodes of a_levels[i]; the parents of each fact
\* node of s_levels[i+1] are exactly the action nodes of a_levels[i] that have
\* its literal as an effect, and each of them has the literal as a child.
C16_LiteralLayerFromEffects ==
    \A g \in AllGraphs : \A i \in 1..Len(g.a_levels) :
        (i + 1 <= Len(g.s_levels)) =>
            LET a_level == g.a_levels[i]
                s_level == g.s_levels[i + 1]
                producers(lit) == {k \in DOMAIN a_level : lit \in SignedEffects(a_level[k].action)}
            IN /\ Literals(s_level) = UNION {SignedEffects(a_level[k].action) : k \in DOMAIN a_level}
               /\ \A lit \in DOMAIN s_level :
                     /\ s_level[lit].parents = producers(lit)
                     /\ \A k \in producers(lit) : lit \in a_level[k].children

\* C16 witness: a fact node of a layer after layer 1 has a ground action and
\* a no-op as parents
C16_Witness ==
    /\ Len(s_levels) >= 3
    /\ \E lit \in DOMAIN s_levels[3] : \E k1, k2 \in s_levels[3][lit].parents :
          a_levels[2][k1].is_persistent /\ ~a_levels[2][k2].is_persistent

\* C17: the parents of an action node admitted at layer i are the nodes of
\* fact layer i: each parent has the mutex set of the node of s_levels[i] with
\* its (fluent, polarity).
C17_ParentsAreLayerNodes ==
    \A g \in AllGraphs : \A i \in 1..Len(g.a_levels) : \A k \in DOMAIN g.a_levels[i] :
        \A p \in g.a_levels[i][k].parents :
            /\ SKey(p) \in DOMAIN g.s_levels[i]
            /\ p.mutex = g.s_levels[i][SKey(p)].mutex

\* C18: in every layer i >= 1 that update_a_mutex has processed, two distinct
\* action nodes are mutex when a precondition literal of one and a
\* precondition literal of the other are mutex nodes of s_levels[i].
C18_CompetingNeeds ==
    \A i \in ProcessedALevels : (i >= 2) =>
        \A a1, a2 \in DOMAIN a_levels[i] :
            (/\ a1 # a2
             /\ \E p1 \in SignedPreconds(a_levels[i][a1].action) :
                   \E p2 \in SignedPreconds(a_levels[i][a2].action) :
                       p2 \in s_levels[i][p1].mutex)
            => (a2 \in a_levels[i][a1].mutex /\ a1 \in a_levels[i][a2].mutex)

\* the other polarity of a (fluent, polarity) pair
Negated(lit) == <<lit[1], ~lit[2]>>

\* some signed effect of one action is the negation of a signed effect of the other
InconsistentEffects(action1, action2) ==
    \E e \in SignedEffects(action1) : Negated(e) \in SignedEffects(action2)

\* some signed effect of one action is the negation of a signed precondition of the other
Interferes(action1, action2) ==
    \/ \E e \in SignedEffects(action1) : Negated(e) \in SignedPreconds(action2)
    \/ \E e \in SignedEffects(action2) : Negated(e) \in SignedPreconds(action1)

\* C19: in every action layer that update_a_mutex has processed, in whatever
\* order it visited the nodes, two distinct action nodes are mutex when a
\* signed effect of one is the negation of a signed effect of the other.
C19_InconsistentEffects ==
    \A i \in ProcessedALevels : \A a1, a2 \in DOMAIN a_levels[i] :
        (a1 # a2 /\ InconsistentEffects(a_levels[i][a1].action, a_levels[i][a2].action))
            => (a2 \in a_levels[i][a1].mutex /\ a1 \in a_levels[i][a2].mutex)

\* C19 witness: in a graph that is not serial, two actions with inconsistent
\* effects that do not interfere have been made mutex
C19_Witness ==
    /\ ~serial
    /\ \E i \in ProcessedALevels : \E a1, a2 \in DOMAIN a_levels[i] :
          /\ a1 # a2
          /\ InconsistentEffects(a_levels[i][a1].action, a_levels[i][a2].action)
          /\ ~Interferes(a_levels[i][a1].action, a_levels[i][a2].action)
          /\ a2 \in a_levels[i][a1].mutex

\* C20: in every action layer that update_a_mutex has processed, two distinct
\* action nodes are mutex when a signed effect of either is the negation of a
\* signed precondition of the other.
C20_Interference ==
    \A i \in ProcessedALevels : \A a1, a2 \in DOMAIN a_levels[i] :
        (a1 # a2 /\ Interferes(a_levels[i][a1].action, a_levels[i][a2].action))
            => (a2 \in a_levels[i][a1].mutex /\ a1 \in a_levels[i][a2].mutex)

\* C20 witness: in a graph that is not serial, two actions that interfere
\* and have no inconsistent effects have been made mutex
C20_Witness ==
    /\ ~serial
    /\ \E i \in ProcessedALevels : \E a1, a2 \in DOMAIN a_levels[i] :
          /\ a1 # a2
          /\ Interferes(a_levels[i][a1].action, a_levels[i][a2].action)
          /\ ~InconsistentEffects(a_levels[i][a1].action, a_levels[i][a2].action)
          /\ a2 \in a_levels[i][a1].mutex

\* some precondition literal of one action and some precondition literal of
\* the other are mutex nodes of fact layer s_level
CompetingNeeds(action1, action2, s_level) ==
    \E p1 \in SignedPreconds(action1) : \E p2 \in SignedPreconds(action2) :
        p2 \in s_level[p1].mutex

\* C21: in the finished graph two action nodes of a layer are mutex only if
\* the graph is serial and neither is a no-op, or their effects are
\* inconsistent, or they interfere, or they have competing needs.
C21_NoSpuriousActionMutex ==
    Built =>
        \A i \in 1..Len(a_levels) : \A a1, a2 \in DOMAIN a_levels[i] :
            (a2 \in a_levels[i][a1].mutex) =>
                LET n1 == a_levels[i][a1]
                    n2 == a_levels[i][a2]
                IN \/ serial /\ ~n1.is_persistent /\ ~n2.is_persistent
                   \/ InconsistentEffects(n1.action, n2.action)
                   \/ Interferes(n1.action, n2.action)
                   \/ CompetingNeeds(n1.action, n2.action, s_levels[i])

\* C21 witness: a finished serial graph has, in a layer after layer 0, two
\* no-ops that meet none of the conditions and are not mutex, and two ground
\* actions that are mutex
C21_Witness ==
    /\ pc = "built" /\ serial
    /\ \E i \in 2..Len(a_levels) : \E a1, a2, a3, a4 \in DOMAIN a_levels[i] :
          /\ a1 # a2
          /\ a_levels[i][a1].is_persistent /\ a_levels[i][a2].is_persistent
          /\ ~InconsistentEffects(a_levels[i][a1].action, a_levels[i][a2].action)
          /\ ~CompetingNeeds(a_levels[i][a1].action, a_levels[i][a2].action, s_levels[i])
          /\ a2 \notin a_levels[i][a1].mutex
          /\ a3 # a4
          /\ ~a_levels[i][a3].is_persistent /\ ~a_levels[i][a4].is_persistent
          /\ a4 \in a_levels[i][a3].mutex

\* every action node that supports f1 is mutex with every one that supports f2
AllSupportMutex(s_level, a_level, f1, f2) ==
    \A a1 \in s_level[f1].parents : \A a2 \in s_level[f2].parents :
        a2 \in a_level[a1].mutex

\* C22: in the finished graph, two distinct fact nodes of s_levels[i+1] that
\* are not negations of each other are mutex if and only if every action node
\* of a_levels[i] that supports one is mutex with every one that supports the
\* other.
C22_InconsistentSupport ==
    Built =>
        \A i \in 1..Len(a_levels) : \A f1, f2 \in DOMAIN s_levels[i + 1] :
            (f1 # f2 /\ f2 # Negated(f1)) =>
                ((f2 \in s_levels[i + 1][f1].mutex)
                    <=> AllSupportMutex(s_levels[i + 1], a_levels[i], f1, f2))

\* C22 witness: a finished graph has a layer with two facts of different
\* fluents that are mutex, two that share a supporting action and are not, and
\* two that are not mutex although some of their supporting actions are
C22_Witness ==
    /\ pc = "built"
    /\ \E i \in 1..Len(a_levels) : \E f1, f2, f3, f4, f5, f6 \in DOMAIN s_levels[i + 1] :
          /\ f1[1] # f2[1] /\ f2 \in s_levels[i + 1][f1].mutex
          /\ f3[1] # f4[1] /\ f4 \notin s_levels[i + 1][f3].mutex
          /\ s_levels[i + 1][f3].parents \cap s_levels[i + 1][f4].parents # {}
          /\ f5[1] # f6[1] /\ f6 \notin s_levels[i + 1][f5].mutex
          /\ \E a1 \in s_levels[i + 1][f5].parents : \E a2 \in s_levels[i + 1][f6].parents :
                a2 \in a_levels[i][a1].mutex

\* C23: for two fact nodes of which one has no parents, inconsistent_support_mutex
\* answers as the negation test does, and update_s_mutex makes them mutex only
\* if one is the negation of the other.
C23_ParentlessNegationOnly ==
    LET node1 == client_nodes[call.node1]
        node2 == client_nodes[call.node2]
        parentless == (node1.parents = {}) \/ (node2.parents = {})
    IN /\ (/\ call.op = "inconsistent_support_mutex"
           /\ call.node1 # call.node2
           /\ parentless
           /\ ~is_mutex(node1, node2))
            => (outcome.returned = IF negation_mutex(node1, node2) THEN "True" ELSE "False")
       /\ (call.op = "update_s_mutex" /\ parentless)
            => (is_mutex(node1, node2) <=> negation_mutex(node1, node2))

\* C24: in every graph, finished or under construction, each literal of a fact
\* layer is in the next fact layer and each action of an action layer is in the
\* next action layer.
C24_LayersNeverShrink ==
    \A g \in AllGraphs :
        /\ \A i \in 1..(Len(g.s_levels) - 1) :
              Literals(g.s_levels[i]) \subseteq Literals(g.s_levels[i + 1])
        /\ \A i \in 1..(Len(g.a_levels) - 1) :
              DOMAIN g.a_levels[i] \subseteq DOMAIN g.a_levels[i + 1]

\* a finished graph whose second fact layer and second action layer are
\* strictly larger than the first ones, and a graph under construction with
\* two action layers
C24_Witness ==
    /\ Len(graphs) > 0
    /\ Len(graphs[1].s_levels) >= 3
    /\ Literals(graphs[1].s_levels[1]) # Literals(graphs[1].s_levels[2])
    /\ DOMAIN graphs[1].a_levels[1] # DOMAIN graphs[1].a_levels[2]
    /\ pc = "add_literal_level"
    /\ Len(a_levels) >= 2

\* the literal set of every fact layer and the action set of every action layer
Shape(g) ==
    [facts |-> [i \in 1..Len(g.s_levels) |-> Literals(g.s_levels[i])],
     actions |-> [i \in 1..Len(g.a_levels) |-> DOMAIN g.a_levels[i]]]

\* two finished graphs of the same problem and state, one serial and one not
OtherMode(g1, g2) == g1.problem = g2.problem /\ g1.serial # g2.serial

\* C25: the graphs built for the same problem and state with serial_planning
\* true and false have the same number of layers, the same literals in each
\* fact layer, the same actions in each action layer and the same h_levelsum
\* for every goal list.
C25_SerialChangesMutexOnly ==
    \A i, j \in 1..Len(BuiltGraphs) :
        OtherMode(BuiltGraphs[i], BuiltGraphs[j]) =>
            /\ Shape(BuiltGraphs[i]) = Shape(BuiltGraphs[j])
            /\ \A g \in Goals : h_levelsum(BuiltGraphs[i].s_levels, g)
                                  = h_levelsum(BuiltGraphs[j].s_levels, g)
            /\ (pc = "done") => (level_sums[i] = level_sums[j])

\* both modes have been built with several layers, h_levelsum has been asked
\* for a goal list of two fluents that both graphs hold, and the mutex sets of
\* an action layer differ between the two graphs
C25_Witness ==
    /\ pc = "done"
    /\ Len(graphs) = 1
    /\ OtherMode(graphs[1], CurrentGraph)
    /\ Len(s_levels) >= 3
    /\ Len(goal) = 2
    /\ level_sums[1].value > 0
    /\ \E i \in 1..Len(a_levels) : \E a \in DOMAIN a_levels[i] :
          a_levels[i][a].mutex # graphs[1].a_levels[i][a].mutex

====
